---- MODULE Spec2Model ----
(***************************************************************************)
(* Model of the Brainrot interpreter (src/main.py): class Interpreter, its *)
(* fetch-execute loop run(), the instruction handlers of execute(), the    *)
(* tokenizer parse_lines() and the file entry point.                       *)
(*                                                                         *)
(* The program counter is 0-based as in the source; TLA+ sequences are     *)
(* 1-based, so instruction i of the program is lines[i + 1].  An entry of  *)
(* lines is the pair <<line_no, tokens>> produced by parse_lines().        *)
(*                                                                         *)
(* A raw source line is modelled as the sequence of its whitespace-        *)
(* separated words; the word "#" starts a comment.                         *)
(***************************************************************************)
EXTENDS Integers, Sequences, FiniteSets, TLC

VARIABLES acc, pc, lines, loop_stack, stack, vars, out, err, status, trace, open

allvars == <<acc, pc, lines, loop_stack, stack, vars, out, err, status, trace, open>>

(***************************************************************************)
(* Bounds of the model.                                                    *)
(***************************************************************************)
MaxLoopLen == 5
MaxNestLen == 6
MaxArithLen == 4
MaxStackLen == 4
MaxLoadLen == 3
MaxCount == 3
MaxPush == 3
MaxSteps == 24
MaxAcc == 30000

(***************************************************************************)
(* Instructions (token lists) used to build the source files.              *)
(***************************************************************************)
T(c) == <<c>>

LoopToks == {T("rizz"), T("gyatt"), T("vibe"), T("unvibe"), T("sus"), T("suspect")}

NestToks == {T("rizz"), T("gyatt"), T("vibe"), T("unvibe")}

ArithNames == {"rizz", "gyatt", "drip", "npc", "lit", "slaps", "yeet", "cringe"}

ArithToks == {T(c) : c \in ArithNames} \cup {T("flex")}

StackToks == {T("rizz"), T("gyatt"), T("fam"), T("clapback"), T("flex"),
              <<"set", "x">>, <<"get", "x">>, <<"get", "y">>, <<"set">>,
              T("skibidi")}

LoadToks == {T("rizz"), T("skibidi"), <<"load", "a.brainrot">>,
             <<"load", "b.brainrot">>, <<"load", "nope.brainrot">>, <<"load">>}

SeqsUpTo(S, n) == UNION {[1..k -> S] : k \in 0..n}

RECURSIVE Repeat(_, _)
Repeat(x, n) == IF n = 0 THEN <<>> ELSE <<x>> \o Repeat(x, n - 1)

(* acc := k, then a loop whose body decrements acc by one, then a print; *)
(* the last body saves acc, skips an inner loop at acc = 0, restores acc  *)
LoopBodies == {<<T("gyatt")>>, <<T("mid"), T("gyatt")>>,
               <<T("rizz"), T("gyatt"), T("gyatt")>>,
               <<T("gyatt"), T("fam"), <<"no", "cap">>, T("vibe"), T("rizz"),
                 T("unvibe"), T("clapback")>>}

Counted(k, body) == Repeat(T("rizz"), k) \o <<T("vibe")>> \o body
                       \o <<T("unvibe"), T("skibidi")>>

(* the same loop inside the body of an enclosing, entered loop *)
CountedNested(k, body) == <<T("rizz"), T("vibe"), T("gyatt")>>
                             \o Repeat(T("rizz"), k) \o <<T("vibe")>> \o body
                             \o <<T("unvibe"), T("skibidi"), T("unvibe")>>

(* push 1, 2, .. n, then pop n + 1 times *)
RECURSIVE Pushes(_)
Pushes(n) == IF n = 0 THEN <<>> ELSE Pushes(n - 1) \o <<T("rizz"), T("fam")>>

PushPop(n) == Pushes(n) \o Repeat(T("clapback"), n + 1)

(* programs around variables and around a would-be `peek` instruction *)
VarDemo == <<T("drip"), <<"set", "x">>, T("rizz"), <<"set", "y">>, T("fam"),
             T("yeet"), <<"get", "x">>, T("skibidi"), <<"get", "y">>,
             T("skibidi"), <<"get", "z">>>>

Extra ==
    {VarDemo,
     <<T("rizz"), <<"set", "x">>, <<"get", "x">>, <<"get", "x", "y">>>>,
     <<T("rizz"), T("fam"), T("rizz"), T("peek"), T("skibidi")>>,
     <<T("peek"), T("skibidi")>>}

LitLoop == <<T("lit"), T("vibe"), T("gyatt"), T("unvibe"), T("skibidi")>>

SusDemo == <<<<"no", "cap">>, T("sus"), T("drip"), T("skibidi")>>

Scenarios ==
    {LitLoop, SusDemo,
     <<T("lit"), T("suspect"), T("drip"), T("skibidi")>>,
     <<T("rizz"), T("vibe"), T("gyatt"), T("vibe"), T("rizz"), T("unvibe"),
       T("unvibe"), T("skibidi")>>,
     <<T("rizz"), T("vibe"), T("gyatt"), T("sus"), T("unvibe"), T("mid")>>,
     <<<<"#", "counter">>, <<>>, <<"rizz", "#", "one">>, <<"no", "cap", "#">>,
       T("skibidi")>>,
     <<T("spill"), T("skibidi"), T("spill"), T("cringe"), T("skibidi")>>,
     <<T("help"), T("version"), T("mid"), <<"no">>, T("rizz")>>,
     <<T("rizz"), <<"no", "cap", "fr">>, T("rizz")>>,
     <<T("rizz"), <<"no", "way">>>>,
     <<T("bussin"), T("rizz")>>}

Sources ==
    SeqsUpTo(LoopToks, MaxLoopLen) \cup SeqsUpTo(NestToks, MaxNestLen)
       \cup SeqsUpTo(ArithToks, MaxArithLen)
       \cup SeqsUpTo(StackToks, MaxStackLen) \cup SeqsUpTo(LoadToks, MaxLoadLen)
       \cup {Counted(k, b) : k \in 1..MaxCount, b \in LoopBodies}
       \cup {CountedNested(k, b) : k \in 1..MaxCount, b \in LoopBodies}
       \cup {PushPop(n) : n \in 0..MaxPush}
       \cup Scenarios \cup Extra

(* the files that `load` can name; nope.brainrot does not exist *)
Files == [f \in {"a.brainrot", "b.brainrot"} |->
            IF f = "a.brainrot"
            THEN <<T("rizz"), <<"#", "included">>, T("skibidi")>>
            ELSE <<T("lit"), T("yeet"), T("gyatt"), T("cringe"), T("skibidi"),
                   T("skibidi")>>]

(* what input() can return to `spill`: an integer literal or other text *)
Inputs == {-3, 0, 2}
BadInput == "abc"

(***************************************************************************)
(* parse_lines                                                             *)
(***************************************************************************)
RECURSIVE before_hash(_)
before_hash(words) ==
    IF words = <<>> \/ Head(words) = "#" THEN <<>>
    ELSE <<Head(words)>> \o before_hash(Tail(words))

RECURSIVE parse_from(_, _)
parse_from(raw, idx) ==
    IF idx > Len(raw) THEN <<>>
    ELSE LET line == raw[idx]
         IN  IF line = <<>> \/ Head(line) = "#"
             THEN parse_from(raw, idx + 1)
             ELSE <<<<idx, before_hash(line)>>>> \o parse_from(raw, idx + 1)

parse_lines(raw) == parse_from(raw, 1)

(***************************************************************************)
(* Fetch: the head of the while loop of run()                              *)
(***************************************************************************)
NoErr == [line |-> 0, msg |-> "", arg |-> ""]

tokens_at(ls, i) == ls[i + 1][2]
cmd_at(ls, i) == tokens_at(ls, i)[1]

(* The accumulator is an unbounded Python integer; the model stops a run   *)
(* whose accumulator leaves -MaxAcc..MaxAcc, and after MaxSteps steps.     *)
Fetch ==
    /\ status = "running" /\ pc < Len(lines)
    /\ Len(trace) < MaxSteps
    /\ -MaxAcc <= acc /\ acc <= MaxAcc
line_no == lines[pc + 1][1]
tokens == tokens_at(lines, pc)
cmd == tokens[1]
args == Tail(tokens)

(***************************************************************************)
(* Loop structure of a program, by counting: the `unvibe` that closes the  *)
(* `vibe` at index p is the first index m > p at which the `unvibe`s seen  *)
(* since p exceed the `vibe`s seen since p.                                *)
(***************************************************************************)
CountTok(ls, name, lo, hi) == Cardinality({i \in lo..hi : cmd_at(ls, i) = name})

Excess(ls, p, m) == CountTok(ls, "unvibe", p + 1, m) - CountTok(ls, "vibe", p + 1, m)

IsMatch(ls, p, m) ==
    /\ m \in (p + 1)..(Len(ls) - 1)
    /\ Excess(ls, p, m) = 1
    /\ \A j \in (p + 1)..(m - 1) : Excess(ls, p, j) < 1

HasMatch(ls, p) == \E m \in (p + 1)..(Len(ls) - 1) : IsMatch(ls, p, m)
MatchOf(ls, p) == CHOOSE m \in (p + 1)..(Len(ls) - 1) : IsMatch(ls, p, m)

WellNested(ls) ==
    /\ \A j \in 0..(Len(ls) - 1) : Excess(ls, -1, j) <= 0
    /\ Excess(ls, -1, Len(ls) - 1) = 0

(* last index of the body of the loop opened at v, its `unvibe` included *)
BodyEnd(ls, v) == IF HasMatch(ls, v) THEN MatchOf(ls, v) ELSE Len(ls)

(***************************************************************************)
(* run(): the tail of one iteration of the while loop.  trace records the  *)
(* indices fetched so far; open records the loops that were entered        *)
(* (`vibe` with acc > 0) and whose body the program counter has not left   *)
(* since.  Both are history variables: no handler reads them.              *)
(***************************************************************************)
advance_stay(old_pc, new_pc) == new_pc

advance(old_pc, new_pc) == IF new_pc = old_pc THEN new_pc + 1 ELSE new_pc

Advance(new_pc, entered) ==
    LET np == advance(pc, new_pc)
    IN  /\ pc' = np
        /\ trace' = Append(trace, pc)
        /\ open' = {v \in open \cup entered : v < np /\ np <= BodyEnd(lines, v)}
        /\ UNCHANGED <<err, status>>

(* except BrainrotError: report on stderr and sys.exit(1) *)
Raise(msg, arg, new_pc) ==
    /\ status' = "error"
    /\ err' = [line |-> line_no, msg |-> msg, arg |-> arg]
    /\ pc' = new_pc
    /\ trace' = Append(trace, pc)
    /\ UNCHANGED <<acc, lines, loop_stack, stack, vars, out, open>>

print_acc(a) == [kind |-> "int", val |-> a]
print_text(what) == [kind |-> what, val |-> 0]

(***************************************************************************)
(* execute(): basic arithmetic                                             *)
(***************************************************************************)
Arith(name, a) ==
    /\ Fetch /\ cmd = name
    /\ acc' = a
    /\ Advance(pc, {})
    /\ UNCHANGED <<lines, loop_stack, stack, vars, out>>

rizz == Arith("rizz", acc + 1)
gyatt == Arith("gyatt", acc - 1)
drip == Arith("drip", acc + 5)
npc == Arith("npc", acc - 5)
lit == Arith("lit", acc + 10)
slaps == Arith("slaps", acc - 10)
yeet == Arith("yeet", acc * 2)

flex_double(a) == a * 2

flex_acc(a) == a * a

flex == Arith("flex", flex_acc(acc))

(* Python's // rounds toward negative infinity, as \div does *)
cringe_trunc(a) == IF a < 0 THEN -((-a) \div 2) ELSE a \div 2

cringe_acc(a) == IF a # 0 THEN a \div 2 ELSE a

cringe == Arith("cringe", cringe_acc(acc))

(***************************************************************************)
(* execute(): stack operations                                             *)
(***************************************************************************)
fam ==
    /\ Fetch /\ cmd = "fam"
    /\ stack' = Append(stack, acc)
    /\ Advance(pc, {})
    /\ UNCHANGED <<acc, lines, loop_stack, vars, out>>

clapback_fifo ==
    /\ Fetch /\ cmd = "clapback"
    /\ IF stack = <<>>
       THEN Raise("Stack is empty", "", pc)
       ELSE /\ acc' = stack[1]
            /\ stack' = Tail(stack)
            /\ Advance(pc, {})
            /\ UNCHANGED <<lines, loop_stack, vars, out>>

clapback_peek ==
    /\ Fetch /\ cmd = "clapback"
    /\ IF stack = <<>>
       THEN Raise("Stack is empty", "", pc)
       ELSE /\ acc' = stack[Len(stack)]
            /\ Advance(pc, {})
            /\ UNCHANGED <<stack, lines, loop_stack, vars, out>>

clapback ==
    /\ Fetch /\ cmd = "clapback"
    /\ IF stack = <<>>
       THEN Raise("Stack is empty", "", pc)
       ELSE /\ acc' = stack[Len(stack)]
            /\ stack' = SubSeq(stack, 1, Len(stack) - 1)
            /\ Advance(pc, {})
            /\ UNCHANGED <<lines, loop_stack, vars, out>>

(***************************************************************************)
(* execute(): variables                                                    *)
(***************************************************************************)
set_fresh ==
    /\ Fetch /\ cmd = "set"
    /\ IF Len(args) # 1
       THEN Raise("Usage: set <varname>", "", pc)
       ELSE /\ vars' = [n \in {args[1]} |-> acc]
            /\ Advance(pc, {})
            /\ UNCHANGED <<acc, lines, loop_stack, stack, out>>

set ==
    /\ Fetch /\ cmd = "set"
    /\ IF Len(args) # 1
       THEN Raise("Usage: set <varname>", "", pc)
       ELSE /\ vars' = [n \in DOMAIN vars \cup {args[1]} |->
                           IF n = args[1] THEN acc ELSE vars[n]]
            /\ Advance(pc, {})
            /\ UNCHANGED <<acc, lines, loop_stack, stack, out>>

get ==
    /\ Fetch /\ cmd = "get"
    /\ IF Len(args) # 1
       THEN Raise("Usage: get <varname>", "", pc)
       ELSE LET v == args[1]
            IN  IF v \notin DOMAIN vars
                THEN Raise("Unknown variable", v, pc)
                ELSE /\ acc' = vars[v]
                     /\ Advance(pc, {})
                     /\ UNCHANGED <<lines, loop_stack, stack, vars, out>>

(***************************************************************************)
(* execute(): I/O                                                          *)
(***************************************************************************)
spill ==
    /\ Fetch /\ cmd = "spill"
    /\ \/ \E val \in Inputs :
            /\ acc' = val
            /\ Advance(pc, {})
            /\ UNCHANGED <<lines, loop_stack, stack, vars, out>>
       \/ Raise("Invalid integer input", BadInput, pc)

skibidi ==
    /\ Fetch /\ cmd = "skibidi"
    /\ out' = Append(out, print_acc(acc))
    /\ Advance(pc, {})
    /\ UNCHANGED <<acc, lines, loop_stack, stack, vars>>

(***************************************************************************)
(* execute(): control flow                                                 *)
(***************************************************************************)
no_cap_any ==
    /\ Fetch /\ cmd = "no"
    /\ acc' = 0
    /\ Advance(pc, {})
    /\ UNCHANGED <<lines, loop_stack, stack, vars, out>>

no_cap ==
    /\ Fetch /\ cmd = "no" /\ args = <<"cap">>
    /\ acc' = 0
    /\ Advance(pc, {})
    /\ UNCHANGED <<lines, loop_stack, stack, vars, out>>

sus_pc_one(p, a) == IF a = 0 THEN p + 1 ELSE p

sus_pc_three(p, a) == IF a = 0 THEN p + 3 ELSE p

sus_pc(p, a) == IF a = 0 THEN p + 2 ELSE p

sus ==
    /\ Fetch /\ cmd = "sus"
    /\ Advance(sus_pc(pc, acc), {})
    /\ UNCHANGED <<acc, lines, loop_stack, stack, vars, out>>

suspect_pc(p, a) == IF a > 0 THEN p + 2 ELSE p

suspect ==
    /\ Fetch /\ cmd = "suspect"
    /\ Advance(suspect_pc(pc, acc), {})
    /\ UNCHANGED <<acc, lines, loop_stack, stack, vars, out>>

(* one iteration of the forward scan: the depth after reading token tok *)
scan_depth_flat(tok, depth) == IF tok = "unvibe" THEN depth - 1 ELSE depth

scan_depth(tok, depth) ==
    IF tok = "vibe" THEN depth + 1
    ELSE IF tok = "unvibe" THEN depth - 1
    ELSE depth

(* while depth and self.pc < len(self.lines) - 1 *)
scan_more_long(ls, p, depth) == depth # 0 /\ p < Len(ls)

scan_more_short(ls, p, depth) == depth # 0 /\ p < Len(ls) - 2

scan_more(ls, p, depth) == depth # 0 /\ p < Len(ls) - 1

(* self.lines[self.pc] inside the scan raises IndexError (fault) when the *)
(* index is not one of the program                                        *)
RECURSIVE scan(_, _, _)
scan(ls, p, depth) ==
    IF scan_more(ls, p, depth)
    THEN IF p + 1 < Len(ls)
         THEN scan(ls, p + 1, scan_depth(cmd_at(ls, p + 1), depth))
         ELSE [pc |-> p + 1, depth |-> depth, fault |-> TRUE]
    ELSE [pc |-> p, depth |-> depth, fault |-> FALSE]

(* the indices at which the scan started at p indexes the program *)
RECURSIVE scan_reads(_, _, _)
scan_reads(ls, p, depth) ==
    IF scan_more(ls, p, depth)
    THEN {p + 1} \cup
            (IF p + 1 < Len(ls)
             THEN scan_reads(ls, p + 1, scan_depth(cmd_at(ls, p + 1), depth))
             ELSE {})
    ELSE {}

vibe ==
    /\ Fetch /\ cmd = "vibe"
    /\ IF acc > 0
       THEN /\ loop_stack' = Append(loop_stack, pc)
            /\ Advance(pc, {pc})
            /\ UNCHANGED <<acc, lines, stack, vars, out>>
       ELSE LET r == scan(lines, pc, 1)
            IN  IF r.fault
                THEN Raise("IndexError", "", r.pc)
                ELSE IF r.depth # 0
                THEN Raise("Unmatched 'vibe'", "", r.pc)
                ELSE /\ Advance(r.pc, {})
                     /\ UNCHANGED <<acc, lines, loop_stack, stack, vars, out>>

unvibe_jumps_eq(a) == a >= 0

unvibe_jumps(a) == a > 0

unvibe_restart ==
    /\ Fetch /\ cmd = "unvibe"
    /\ IF loop_stack = <<>>
       THEN Raise("Unmatched 'unvibe'", "", pc)
       ELSE LET start == loop_stack[Len(loop_stack)]
            IN  IF unvibe_jumps(acc)
                THEN /\ Advance(start, {})
                     /\ UNCHANGED <<acc, lines, loop_stack, stack, vars, out>>
                ELSE /\ loop_stack' = SubSeq(loop_stack, 1, Len(loop_stack) - 1)
                     /\ Advance(pc, {})
                     /\ UNCHANGED <<acc, lines, stack, vars, out>>

unvibe ==
    /\ Fetch /\ cmd = "unvibe"
    /\ IF loop_stack = <<>>
       THEN Raise("Unmatched 'unvibe'", "", pc)
       ELSE LET start == loop_stack[Len(loop_stack)]
            IN  IF unvibe_jumps(acc)
                THEN /\ Advance(start + 1, {})
                     /\ UNCHANGED <<acc, lines, loop_stack, stack, vars, out>>
                ELSE /\ loop_stack' = SubSeq(loop_stack, 1, Len(loop_stack) - 1)
                     /\ Advance(pc, {})
                     /\ UNCHANGED <<acc, lines, stack, vars, out>>

(***************************************************************************)
(* Interpreter.load and execute(): file include                            *)
(***************************************************************************)
isfile(filepath) == filepath \in DOMAIN Files

(* the value load() leaves in self.lines *)
load(filepath) == parse_lines(Files[filepath])

resume_loaded(prev_lines, loaded) == loaded

(* self.lines = prev_lines, after self.load(filename) replaced it *)
resume(prev_lines, loaded) == prev_lines

exec_load ==
    /\ Fetch /\ cmd = "load"
    /\ IF Len(args) # 1
       THEN Raise("Usage: load <filename>", "", pc)
       ELSE LET filename == args[1]
                prev_lines == lines
                prev_pc == pc
            IN  IF ~isfile(filename)
                THEN Raise("File not found", filename, pc)
                ELSE /\ lines' = resume(prev_lines, load(filename))
                     /\ Advance(prev_pc, {})
                     /\ UNCHANGED <<acc, loop_stack, stack, vars, out>>

(***************************************************************************)
(* execute(): meta, no-op, unknown                                         *)
(***************************************************************************)
help ==
    /\ Fetch /\ cmd = "help"
    /\ out' = Append(out, print_text("help"))
    /\ Advance(pc, {})
    /\ UNCHANGED <<acc, lines, loop_stack, stack, vars>>

version ==
    /\ Fetch /\ cmd = "version"
    /\ out' = Append(out, print_text("version"))
    /\ Advance(pc, {})
    /\ UNCHANGED <<acc, lines, loop_stack, stack, vars>>

mid ==
    /\ Fetch /\ cmd = "mid"
    /\ Advance(pc, {})
    /\ UNCHANGED <<acc, lines, loop_stack, stack, vars, out>>

Mnemonics == ArithNames \cup
    {"flex", "fam", "clapback", "set", "get", "spill", "skibidi", "sus",
     "suspect", "vibe", "unvibe", "load", "help", "version", "mid"}

unknown ==
    /\ Fetch
    /\ cmd \notin Mnemonics
    /\ ~(cmd = "no" /\ args = <<"cap">>)
    /\ Raise("Unknown command", cmd, pc)

(***************************************************************************)
(* The file entry point and the exit of the while loop of run()            *)
(***************************************************************************)
Main ==
    /\ status = "init"
    /\ \/ \E raw \in Sources :
            /\ lines' = parse_lines(raw)
            /\ status' = "running"
            /\ UNCHANGED <<acc, pc, loop_stack, stack, vars, out, err, trace, open>>
       \/ /\ status' = "error"
          /\ err' = [line |-> 0, msg |-> "File not found", arg |-> "nope.brainrot"]
          /\ UNCHANGED <<acc, pc, lines, loop_stack, stack, vars, out, trace, open>>

Halt ==
    /\ status = "running"
    /\ ~(pc < Len(lines))
    /\ status' = "done"
    /\ UNCHANGED <<acc, pc, lines, loop_stack, stack, vars, out, err, trace, open>>

Init ==
    /\ acc = 0
    /\ pc = 0
    /\ lines = <<>>
    /\ loop_stack = <<>>
    /\ stack = <<>>
    /\ vars = <<>>
    /\ out = <<>>
    /\ err = NoErr
    /\ status = "init"
    /\ trace = <<>>
    /\ open = {}

Next ==
    \/ Main \/ Halt
    \/ rizz \/ gyatt \/ drip \/ npc \/ lit \/ slaps \/ yeet \/ flex \/ cringe
    \/ fam \/ clapback \/ set \/ get \/ spill \/ skibidi
    \/ no_cap \/ sus \/ suspect \/ vibe \/ unvibe
    \/ exec_load \/ help \/ version \/ mid \/ unknown

Spec == Init /\ [][Next]_allvars

(***************************************************************************)
(* Vocabulary of the properties                                            *)
(***************************************************************************)
(* the run loop is about to execute the instruction `name` *)
At(name) == status = "running" /\ pc < Len(lines) /\ cmd = name

(* number of times the instruction at index i has been executed *)
hits(i) == Cardinality({j \in 1..Len(trace) : trace[j] = i})

(* the last instruction executed *)
Last == trace[Len(trace)]

Top == loop_stack[Len(loop_stack)]

(* the documented effect of an arithmetic instruction on the accumulator *)
Effect(c, a) ==
    CASE c = "rizz" -> a + 1
      [] c = "gyatt" -> a - 1
      [] c = "drip" -> a + 5
      [] c = "npc" -> a - 5
      [] c = "lit" -> a + 10
      [] c = "slaps" -> a - 10
      [] c = "yeet" -> 2 * a
      [] c = "cringe" -> IF a = 0 THEN 0 ELSE (a - (a % 2)) \div 2
      [] OTHER -> a

(* left fold of the effects of the first n instructions of ls over a *)
RECURSIVE Fold(_, _, _)
Fold(ls, n, a) == IF n = 0 THEN a ELSE Effect(cmd_at(ls, n - 1), Fold(ls, n - 1, a))

(* what `skibidi` instructions among the first n instructions of ls print *)
RECURSIVE Printed(_, _, _)
Printed(ls, n, a) ==
    IF n = 0 THEN <<>>
    ELSE Printed(ls, n - 1, a) \o
           (IF cmd_at(ls, n - 1) = "skibidi"
            THEN <<print_acc(Fold(ls, n - 1, a))>> ELSE <<>>)

IsArith(ls) == \A i \in 0..(Len(ls) - 1) : cmd_at(ls, i) \in ArithNames

(***************************************************************************)
(* C1: when `vibe` at index p runs with acc <= 0 and its depth-matched     *)
(* `unvibe` is at index m, the next instruction fetched is m + 1: the      *)
(* `unvibe` is not executed, no error is raised, and acc, the stack, the   *)
(* variables and the loop stack are unchanged.                             *)
(***************************************************************************)
C1_SkipPastUnvibe ==
    [][(At("vibe") /\ acc <= 0 /\ HasMatch(lines, pc)) =>
          /\ pc' = MatchOf(lines, pc) + 1
          /\ status' = "running"
          /\ err' = err
          /\ UNCHANGED <<acc, stack, vars, loop_stack>>]_allvars

(***************************************************************************)
(* C2: a loop entered with acc = k > 0 whose body lowers acc by one per    *)
(* iteration runs its body exactly k times, then continues after `unvibe`  *)
(* with acc = 0 and the loop stack at the depth it had before `vibe`; the  *)
(* program lit; vibe; gyatt; unvibe; skibidi prints 0 after 10 iterations. *)
(***************************************************************************)
(* src: the source; v: index of `vibe`; blen: length of the body;          *)
(* k: acc at `vibe`; d0: loop-stack depth before `vibe`                    *)
CountedOK(src, v, blen, k, d0) ==
    lines = parse_lines(src) =>
       /\ \A i \in (v + 1)..(v + blen) : hits(i) <= k
       /\ hits(v) > 0 /\ pc > v + blen + 1 =>
             /\ \A i \in (v + 1)..(v + blen + 1) : hits(i) = k
             /\ hits(v) = 1
       /\ pc = v + blen + 2 => acc = 0 /\ Len(loop_stack) = d0
       /\ status # "error"

C2_CountedLoop ==
    /\ \A k \in 1..MaxCount, b \in LoopBodies :
          /\ CountedOK(Counted(k, b), k, Len(b), k, 0)
          /\ CountedOK(CountedNested(k, b), k + 3, Len(b), k, 1)
          /\ lines = parse_lines(Counted(k, b)) /\ status = "done"
                => out = <<print_acc(0)>>
    /\ CountedOK(LitLoop, 1, 1, 10, 0)
    /\ lines = parse_lines(LitLoop) /\ status = "done" => out = <<print_acc(0)>>

(***************************************************************************)
(* C3: in a program whose `vibe`/`unvibe` are well nested, `vibe` at index *)
(* p executed with acc <= 0 leaves PC at the `unvibe` that matches p by    *)
(* depth counting, never at the `unvibe` of a loop nested in p's body.     *)
(***************************************************************************)
C3_ScanFindsOwnUnvibe ==
    [][(At("vibe") /\ acc <= 0 /\ WellNested(lines)) =>
          /\ pc' = MatchOf(lines, pc)
          /\ status' = "running"]_allvars

C3_Witness ==
    /\ status = "running"
    /\ trace # <<>>
    /\ WellNested(lines)
    /\ cmd_at(lines, Last) = "vibe"
    /\ acc <= 0
    /\ pc = MatchOf(lines, Last)
    /\ \E i \in (Last + 1)..(pc - 1) : cmd_at(lines, i) = "unvibe"

(***************************************************************************)
(* C4: `unvibe` at index q executed with acc > 0 and `start` on top of the *)
(* loop stack makes start + 1 the next instruction fetched and leaves the  *)
(* loop stack unchanged, for every body length (start + 1 = q included).   *)
(***************************************************************************)
C4_Reentry ==
    [][(At("unvibe") /\ loop_stack # <<>> /\ acc > 0) =>
          /\ pc' = Top + 1
          /\ loop_stack' = loop_stack]_allvars

(***************************************************************************)
(* C5: in a well-nested program, at each instruction fetch the depth of    *)
(* the loop stack is the number of entered loops whose body encloses PC.   *)
(* Stated here for the programs that contain no `sus` and no `suspect`.    *)
(***************************************************************************)
NoSkips(ls) == \A i \in 0..(Len(ls) - 1) : cmd_at(ls, i) \notin {"sus", "suspect"}

C5_LoopStackBalance ==
    (status = "running" /\ pc < Len(lines) /\ WellNested(lines) /\ NoSkips(lines)) =>
        Len(loop_stack) = Cardinality(open)

(***************************************************************************)
(* C6: `sus` with acc = 0 and `suspect` with acc > 0 at index p make p + 2 *)
(* the next instruction fetched and change nothing else, so p + 1 is not   *)
(* executed (no cap; sus; drip; skibidi prints 0); otherwise the next      *)
(* instruction is p + 1; a skip to or past the end ends the run normally.  *)
(***************************************************************************)
SkipTaken == IF cmd = "sus" THEN acc = 0 ELSE acc > 0

C6_ConditionalSkip ==
    /\ [][(At("sus") \/ At("suspect")) =>
             /\ pc' = IF SkipTaken THEN pc + 2 ELSE pc + 1
             /\ trace' = Append(trace, pc)
             /\ status' = "running"
             /\ UNCHANGED <<acc, stack, vars, out, err, loop_stack, lines>>]_allvars
    /\ [][(status = "running" /\ pc >= Len(lines)) =>
             /\ status' = "done"
             /\ UNCHANGED <<acc, stack, vars, out, err>>]_allvars
    /\ [](lines = parse_lines(SusDemo) /\ status = "done" =>
             out = <<print_acc(0)>> /\ hits(2) = 0 /\ err = NoErr)

C6_Witness ==
    /\ lines = parse_lines(SusDemo)
    /\ status = "done"
    /\ trace = <<0, 1, 3>>
    /\ out = <<print_acc(0)>>

(***************************************************************************)
(* C7: `load <file>` of an existing file runs every instruction of the     *)
(* file to completion (its effects on the machine state and its output     *)
(* occur) before the including program executes its next instruction.      *)
(* The files of this model contain arithmetic and print instructions only. *)
(***************************************************************************)
C7_IncludeRuns ==
    [][(At("load") /\ Len(args) = 1 /\ isfile(args[1])) =>
          LET prog == load(args[1])
          IN  /\ acc' = Fold(prog, Len(prog), acc)
              /\ out' = out \o Printed(prog, Len(prog), acc)]_allvars

(***************************************************************************)
(* C8: after `load <file>` at index p completes without error the program  *)
(* is the instruction sequence it was before and the next instruction      *)
(* fetched is the caller's p + 1, whatever the included file contains.     *)
(***************************************************************************)
C8_IncludeRestores ==
    [][(At("load") /\ Len(args) = 1 /\ isfile(args[1])) =>
          /\ lines' = lines
          /\ pc' = pc + 1
          /\ status' = "running"]_allvars

C8_Witness ==
    /\ status = "running"
    /\ trace # <<>>
    /\ tokens_at(lines, Last) = <<"load", "b.brainrot">>
    /\ pc = Last + 1
    /\ pc < Len(lines)
    /\ Len(lines) # Len(load("b.brainrot"))

(***************************************************************************)
(* C9 (as stated): `flex` pushes acc * acc onto the auxiliary stack and    *)
(* leaves the accumulator unchanged.                                       *)
(***************************************************************************)
C9_FlexPushesSquare ==
    [][At("flex") => stack' = Append(stack, acc * acc) /\ acc' = acc]_allvars

(***************************************************************************)
(* C9 (amended): `flex` replaces the accumulator a by a * a and leaves the *)
(* auxiliary stack unchanged.                                              *)
(***************************************************************************)
C9_FlexSquaresAcc ==
    [][At("flex") =>
          /\ acc' = acc * acc
          /\ stack' = stack
          /\ pc' = pc + 1
          /\ status' = "running"]_allvars

C9_Witness ==
    /\ trace # <<>>
    /\ cmd_at(lines, Last) = "flex"
    /\ stack = <<2>>
    /\ acc = 4

(***************************************************************************)
(* C10: for a program of arithmetic instructions only, the accumulator at  *)
(* termination is the left fold of the instructions' effects over 0, each  *)
(* instruction is executed exactly once in program order, and no error is  *)
(* raised.                                                                 *)
(***************************************************************************)
C10_ArithFold ==
    /\ []((status \in {"running", "done"} /\ IsArith(lines)) =>
             /\ pc <= Len(lines)
             /\ acc = Fold(lines, pc, 0)
             /\ trace = [i \in 1..pc |-> i - 1]
             /\ err = NoErr
             /\ status = "done" => pc = Len(lines))
    /\ [][(status = "running" /\ IsArith(lines)) => status' # "error"]_allvars

C10_Witness ==
    /\ status = "done"
    /\ lines = parse_lines(<<T("gyatt"), T("gyatt"), T("gyatt"), T("cringe")>>)
    /\ acc = -2
    /\ trace = <<0, 1, 2, 3>>

(***************************************************************************)
(* C11: from an empty stack, n pushes with `fam` followed by n `clapback`s *)
(* load the pushed values in reverse order of push and empty the stack; a  *)
(* further `clapback` raises "Stack is empty" and stops the run without    *)
(* changing the accumulator or the stack.                                  *)
(***************************************************************************)
(* PushPop(n) pushes 1..n at indices 0..2n-1 and pops at indices 2n..3n *)
PushPopOK(n) ==
    lines = parse_lines(PushPop(n)) =>
       /\ status # "done"
       /\ pc <= 3 * n
       /\ pc >= 2 * n => stack = [i \in 1..(3 * n - pc) |-> i]
       /\ pc > 2 * n => acc = 3 * n - pc + 1
       /\ status = "error" =>
             /\ pc = 3 * n
             /\ err.msg = "Stack is empty"
             /\ Len(trace) = 3 * n + 1

C11_StackDiscipline ==
    /\ [](\A n \in 0..MaxPush : PushPopOK(n))
    /\ [][At("fam") =>
             /\ stack' = stack \o <<acc>>
             /\ acc' = acc
             /\ status' = "running"]_allvars
    /\ [][At("clapback") =>
             IF Len(stack) = 0
             THEN /\ status' = "error"
                  /\ err'.msg = "Stack is empty"
                  /\ acc' = acc /\ stack' = stack
             ELSE /\ stack = Append(stack', acc')
                  /\ status' = "running"]_allvars
    /\ [][status = "error" => FALSE]_allvars

C11_Witness ==
    /\ lines = parse_lines(PushPop(3))
    /\ status = "error"
    /\ err.msg = "Stack is empty"
    /\ acc = 1
    /\ stack = <<>>
    /\ trace = <<0, 1, 2, 3, 4, 5, 6, 7, 8, 9>>

(***************************************************************************)
(* C12: `set x` binds x to the accumulator and `get x` loads it back, so   *)
(* `set x` followed, after instructions that do not `set x`, by `get x`    *)
(* yields the value stored, and `set x; get x` leaves the accumulator      *)
(* unchanged; `get` of a name never set raises Unknown variable and leaves *)
(* accumulator and variables unchanged; `set`/`get` with an argument count *)
(* other than 1 raise the usage error.                                     *)
(***************************************************************************)
OneArg(name) == At(name) /\ Len(args) = 1

C12_VarRoundTrip ==
    /\ [][OneArg("set") =>
             /\ args[1] \in DOMAIN vars'
             /\ vars'[args[1]] = acc
             /\ \A n \in DOMAIN vars \ {args[1]} :
                   n \in DOMAIN vars' /\ vars'[n] = vars[n]
             /\ acc' = acc
             /\ status' = "running"]_allvars
    /\ [][(status = "running" /\ ~OneArg("set")) => vars' = vars]_allvars
    /\ [][OneArg("get") =>
             IF args[1] \in DOMAIN vars
             THEN acc' = vars[args[1]] /\ status' = "running"
             ELSE /\ status' = "error"
                  /\ err'.msg = "Unknown variable" /\ err'.arg = args[1]
                  /\ acc' = acc]_allvars
    /\ [][((At("set") \/ At("get")) /\ Len(args) # 1) =>
             /\ status' = "error"
             /\ err'.msg = IF cmd = "set" THEN "Usage: set <varname>"
                           ELSE "Usage: get <varname>"
             /\ acc' = acc]_allvars
    /\ [][(OneArg("get") /\ trace # <<>> /\ Last = pc - 1
              /\ tokens_at(lines, Last) = <<"set", args[1]>>) =>
             acc' = acc /\ status' = "running"]_allvars
    /\ [](lines = parse_lines(VarDemo) =>
             /\ status # "done"
             /\ status = "error" =>
                   /\ out = <<print_acc(5), print_acc(6)>>
                   /\ err.msg = "Unknown variable" /\ err.arg = "z")

C12_Witness ==
    /\ lines = parse_lines(VarDemo)
    /\ status = "error"
    /\ err.arg = "z"
    /\ out = <<print_acc(5), print_acc(6)>>
    /\ acc = 6
    /\ DOMAIN vars = {"x", "y"}

(***************************************************************************)
(* C13: whenever the program is indexed at pc, by the fetch of run() or by *)
(* a step of the forward scan of `vibe`, 0 <= pc < len(program); the run   *)
(* loop ends exactly when pc >= len(program); pc is never negative.        *)
(***************************************************************************)
C13_PcValid ==
    /\ [](pc >= 0)
    /\ [][trace' # trace => 0 <= pc /\ pc < Len(lines)]_allvars
    /\ []((At("vibe") /\ acc <= 0) =>
             /\ ~scan(lines, pc, 1).fault
             /\ \A i \in scan_reads(lines, pc, 1) : 0 <= i /\ i < Len(lines))
    /\ [][(status = "running" /\ status' = "done") => pc >= Len(lines)]_allvars
    /\ [][(status = "running" /\ pc >= Len(lines)) =>
             status' = "done" /\ pc' = pc /\ trace' = trace]_allvars
    /\ [](status = "error" => err.msg # "IndexError")

(* the scan has read up to the last index of the program *)
C13_Witness ==
    /\ lines = parse_lines(<<T("vibe"), T("rizz"), T("unvibe")>>)
    /\ status = "running"
    /\ trace = <<0>>
    /\ pc = Len(lines) - 1

(***************************************************************************)
(* C14: `vibe` executed with acc <= 0 whose scan reaches the end of the    *)
(* program before the depth returns to 0 stops the run with the error      *)
(* "Unmatched 'vibe'" and no further instruction executes; the error is    *)
(* not raised when the depth-matched `unvibe` exists, also when it is the  *)
(* last instruction of the program.                                        *)
(***************************************************************************)
C14_UnmatchedVibe ==
    /\ [][(At("vibe") /\ acc <= 0) =>
             IF HasMatch(lines, pc)
             THEN status' = "running" /\ err' = err
             ELSE /\ status' = "error"
                  /\ err'.msg = "Unmatched 'vibe'"
                  /\ err'.line = line_no]_allvars
    /\ [][status = "error" => trace' = trace /\ out' = out]_allvars
    /\ [](lines = parse_lines(<<T("vibe"), T("unvibe")>>) =>
             err.msg # "Unmatched 'vibe'")

C14_Witness ==
    /\ lines = parse_lines(<<T("vibe"), T("vibe"), T("unvibe")>>)
    /\ status = "error"
    /\ err.msg = "Unmatched 'vibe'"
    /\ trace = <<0>>

(***************************************************************************)
(* C15: `unvibe` executed with an empty loop stack raises "Unmatched       *)
(* 'unvibe'" for every accumulator value and leaves acc, stack, variables  *)
(* and loop stack unchanged; `unvibe` at pc = q with a non-empty loop      *)
(* stack and acc <= 0 pops exactly the top entry of the loop stack and the *)
(* next instruction fetched is q + 1.                                      *)
(***************************************************************************)
C15_ExitLoop ==
    /\ [][(At("unvibe") /\ loop_stack = <<>>) =>
             /\ status' = "error"
             /\ err'.msg = "Unmatched 'unvibe'"
             /\ err'.line = line_no
             /\ UNCHANGED <<acc, stack, vars, loop_stack>>]_allvars
    /\ [][(At("unvibe") /\ loop_stack # <<>> /\ acc <= 0) =>
             /\ loop_stack = Append(loop_stack', Top)
             /\ pc' = pc + 1
             /\ status' = "running"
             /\ UNCHANGED <<acc, stack, vars>>]_allvars

(* the loop of lit; vibe; gyatt; unvibe; skibidi has just been left *)
C15_Witness ==
    /\ lines = parse_lines(LitLoop)
    /\ status = "running"
    /\ Len(trace) = 22
    /\ Last = 3
    /\ pc = 4
    /\ acc = 0
    /\ loop_stack = <<>>

(***************************************************************************)
(* C16: every mnemonic selects exactly one handler or raises the error     *)
(* "Unknown command", which stops the run before any later instruction     *)
(* executes; `no` followed by exactly the argument `cap` sets acc to 0;    *)
(* `no` with any other argument list raises "Unknown command" and leaves   *)
(* acc unchanged.                                                          *)
(***************************************************************************)
(* the number of branches of execute() that take the current instruction *)
Selected ==
    (IF ENABLED rizz THEN 1 ELSE 0) + (IF ENABLED gyatt THEN 1 ELSE 0)
    + (IF ENABLED drip THEN 1 ELSE 0) + (IF ENABLED npc THEN 1 ELSE 0)
    + (IF ENABLED lit THEN 1 ELSE 0) + (IF ENABLED slaps THEN 1 ELSE 0)
    + (IF ENABLED yeet THEN 1 ELSE 0) + (IF ENABLED flex THEN 1 ELSE 0)
    + (IF ENABLED cringe THEN 1 ELSE 0) + (IF ENABLED fam THEN 1 ELSE 0)
    + (IF ENABLED clapback THEN 1 ELSE 0) + (IF ENABLED set THEN 1 ELSE 0)
    + (IF ENABLED get THEN 1 ELSE 0) + (IF ENABLED spill THEN 1 ELSE 0)
    + (IF ENABLED skibidi THEN 1 ELSE 0) + (IF ENABLED no_cap THEN 1 ELSE 0)
    + (IF ENABLED sus THEN 1 ELSE 0) + (IF ENABLED suspect THEN 1 ELSE 0)
    + (IF ENABLED vibe THEN 1 ELSE 0) + (IF ENABLED unvibe THEN 1 ELSE 0)
    + (IF ENABLED exec_load THEN 1 ELSE 0) + (IF ENABLED help THEN 1 ELSE 0)
    + (IF ENABLED version THEN 1 ELSE 0) + (IF ENABLED mid THEN 1 ELSE 0)
    + (IF ENABLED unknown THEN 1 ELSE 0)

Known == cmd \in Mnemonics \/ tokens = <<"no", "cap">>

C16_TotalDispatch ==
    /\ [](Fetch => Selected = 1)
    /\ [][(status = "running" /\ pc < Len(lines)) =>
             IF Known
             THEN ~(status' = "error" /\ err'.msg = "Unknown command")
             ELSE /\ status' = "error"
                  /\ err'.msg = "Unknown command"
                  /\ err'.arg = cmd
                  /\ err'.line = line_no
                  /\ UNCHANGED <<acc, stack, vars, loop_stack, out>>]_allvars
    /\ [][At("no") =>
             IF args = <<"cap">>
             THEN acc' = 0 /\ status' = "running" /\ pc' = pc + 1
             ELSE /\ status' = "error"
                  /\ err'.msg = "Unknown command"
                  /\ err'.arg = "no"
                  /\ acc' = acc]_allvars
    /\ []((status = "error" /\ err.msg = "Unknown command") => ~ENABLED Next)

C16_Witness ==
    /\ lines = parse_lines(<<T("rizz"), <<"no", "cap", "fr">>, T("rizz")>>)
    /\ status = "error"
    /\ err = [line |-> 2, msg |-> "Unknown command", arg |-> "no"]
    /\ acc = 1
    /\ trace = <<0, 1>>

(***************************************************************************)
(* C17 as stated: the instruction set has a peek operation: executing      *)
(* `peek` sets acc to the top element of the stack and leaves the stack    *)
(* unchanged, and raises "Stack is empty" when the stack is empty.         *)
(***************************************************************************)
C17_PeekOperation ==
    [][At("peek") =>
          IF stack = <<>>
          THEN status' = "error" /\ err'.msg = "Stack is empty"
          ELSE /\ acc' = stack[Len(stack)]
               /\ stack' = stack
               /\ status' = "running"]_allvars

(* the accumulator values a successful instruction other than `clapback`  *)
(* can leave: none of them is read from the stack                         *)
AccWithoutStack ==
    CASE cmd \in ArithNames -> {Effect(cmd, acc)}
      [] cmd = "flex" -> {acc * acc}
      [] cmd = "no" -> {0}
      [] cmd = "get" -> {vars[args[1]]}
      [] cmd = "spill" -> Inputs
      [] OTHER -> {acc}

(***************************************************************************)
(* C17, amended: the instruction set has no peek operation.  `peek` is no  *)
(* instruction: it raises "Unknown command" and leaves acc and the stack   *)
(* unchanged.  The only instruction that reads the stack is `clapback`,    *)
(* which sets acc to the top element and removes it, and raises "Stack is  *)
(* empty" on an empty stack; every other instruction computes acc from     *)
(* acc, the variables and the input alone.                                 *)
(***************************************************************************)
C17_NoPeek ==
    /\ "peek" \notin Mnemonics
    /\ [][At("peek") =>
             /\ status' = "error"
             /\ err'.msg = "Unknown command"
             /\ err'.arg = "peek"
             /\ acc' = acc
             /\ stack' = stack]_allvars
    /\ [][At("clapback") =>
             IF stack = <<>>
             THEN /\ status' = "error"
                  /\ err'.msg = "Stack is empty"
                  /\ acc' = acc
             ELSE /\ acc' = stack[Len(stack)]
                  /\ Len(stack') = Len(stack) - 1
                  /\ stack' = SubSeq(stack, 1, Len(stack) - 1)
                  /\ status' = "running"]_allvars
    /\ [][(trace' # trace /\ status' = "running" /\ cmd # "clapback") =>
             acc' \in AccWithoutStack]_allvars

(* `peek` has just failed on a non-empty stack *)
C17_Witness ==
    /\ lines = parse_lines(<<T("rizz"), T("fam"), T("rizz"), T("peek"),
                             T("skibidi")>>)
    /\ status = "error"
    /\ err = [line |-> 4, msg |-> "Unknown command", arg |-> "peek"]
    /\ acc = 2
    /\ stack = <<1>>
    /\ out = <<>>

(***************************************************************************)
(* C18: every successfully executed instruction other than sus, suspect,   *)
(* vibe and unvibe advances pc by exactly one and leaves the loop stack    *)
(* unchanged; only fam/clapback change the stack, only set changes the     *)
(* variables, and no instruction changes the loaded program.               *)
(***************************************************************************)
ControlNames == {"sus", "suspect", "vibe", "unvibe"}

C18_ControlPurity ==
    /\ [][(trace' # trace /\ status' = "running") =>
             /\ cmd \notin ControlNames =>
                   pc' = pc + 1 /\ loop_stack' = loop_stack
             /\ stack' # stack => cmd \in {"fam", "clapback"}
             /\ vars' # vars => cmd = "set"]_allvars
    /\ [][status = "running" => lines' = lines]_allvars

(* rizz; fam; set x; clapback has run: four instructions, pc = 4 *)
C18_Witness ==
    /\ lines = parse_lines(<<T("rizz"), T("fam"), <<"set", "x">>,
                             T("clapback")>>)
    /\ status = "running"
    /\ trace = <<0, 1, 2, 3>>
    /\ pc = 4
    /\ loop_stack = <<>>
    /\ stack = <<>>
    /\ vars = [n \in {"x"} |-> 1]

(***************************************************************************)
(* C19: at each instruction fetch the loop stack is strictly increasing    *)
(* from bottom to top, every entry is the index of a `vibe` instruction    *)
(* and every entry is below pc; so the depth of the loop stack never       *)
(* exceeds the number of `vibe` instructions of the program, and a         *)
(* backward jump (unvibe with acc > 0) never lands at or before an index   *)
(* still on the loop stack.                                                *)
(***************************************************************************)
C19_LoopStackShape ==
    /\ [](status = "running" =>
             /\ \A i \in 1..(Len(loop_stack) - 1) : loop_stack[i] < loop_stack[i + 1]
             /\ \A i \in 1..Len(loop_stack) :
                   /\ loop_stack[i] \in 0..(Len(lines) - 1)
                   /\ cmd_at(lines, loop_stack[i]) = "vibe"
                   /\ loop_stack[i] < pc
             /\ Len(loop_stack) <= CountTok(lines, "vibe", 0, Len(lines) - 1))
    /\ [][(At("unvibe") /\ acc > 0 /\ loop_stack # <<>>) =>
             /\ loop_stack' = loop_stack
             /\ \A i \in 1..Len(loop_stack) : loop_stack[i] < pc']_allvars

(* the inner loop of rizz; rizz; vibe; vibe; gyatt; unvibe has jumped back *)
C19_Witness ==
    /\ lines = parse_lines(<<T("rizz"), T("rizz"), T("vibe"), T("vibe"),
                             T("gyatt"), T("unvibe")>>)
    /\ status = "running"
    /\ trace = <<0, 1, 2, 3, 4, 5>>
    /\ pc = 4
    /\ loop_stack = <<2, 3>>

(***************************************************************************)
(* C20: pc strictly increases on every step of run() except a step that    *)
(* executes `unvibe` with acc > 0 and a non-empty loop stack; hence every  *)
(* program containing no `unvibe` terminates, normally or with an error,   *)
(* after at most len(program) executed instructions, and on normal         *)
(* termination the final pc is len(program) or len(program) + 1.           *)
(***************************************************************************)
NoUnvibe(ls) == \A i \in 0..(Len(ls) - 1) : cmd_at(ls, i) # "unvibe"

C20_Termination ==
    /\ [][(trace' # trace /\ status' = "running"
              /\ ~(cmd = "unvibe" /\ acc > 0 /\ loop_stack # <<>>)) =>
             pc' > pc]_allvars
    /\ [][(trace' # trace /\ status' = "error") =>
             pc' >= pc]_allvars
    /\ [](status = "error" => ~ENABLED Next)
    /\ []((status # "init" /\ NoUnvibe(lines)) =>
             /\ Len(trace) <= Len(lines)
             /\ \A i \in 1..(Len(trace) - 1) : trace[i] < trace[i + 1]
             /\ status = "done" => pc \in {Len(lines), Len(lines) + 1}
             /\ (status = "running" /\ -MaxAcc <= acc /\ acc <= MaxAcc) =>
                   ENABLED Next)

(* no cap; sus; drip; skibidi has ended at pc = len after three steps *)
C20_Witness ==
    /\ lines = parse_lines(SusDemo)
    /\ status = "done"
    /\ trace = <<0, 1, 3>>
    /\ pc = Len(lines)
    /\ out = <<print_acc(0)>>

====
